---- MODULE Spec2Model ----
(***************************************************************************)
(* KubeArmor CRI-O handler (KubeArmor/core/crioHandler.go): the polling    *)
(* loop MonitorCrioEvents, the set differ GetNewCrioContainers /           *)
(* GetDeletedCrioContainers and the registry update UpdateCrioContainer,   *)
(* together with the other users of the shared registry (pod watcher,      *)
(* policy logic) that the handler's merge branch exists for.               *)
(***************************************************************************)
EXTENDS Integers, Sequences, FiniteSets, TLC

(* ---------------------------- bounds ---------------------------------- *)

\* how many times the runtime's container list changes in one behaviour
MaxLiveChanges == 1

\* how many writes to dm.Containers the other registry users make in one behaviour
MaxEnvWrites == 2

\* the container IDs the runtime can report
IDs == {"c1", "c2"}

\* kernel namespace inode numbers; 0 is "not resolved" (Sscanf left the zero value)
NsVals == {0, 1}

\* the pods (NamespaceName, EndPointName) the pod watcher knows
EndPointKeys == {<<"ns1", "pod1">>}

\* the pod a container belongs to: the containers are containers of one pod
PodOf(id) == <<"ns1", "pod1">>

\* whether the runtime reports the io.kubernetes.pod.* labels of a container
Labelled(id) == id # "c2"

\* runtimeSpec.Process.ApparmorProfile of a container: the containers share one
ProfileOf(id) == "p1"

\* why GetContainerInfo returned an error
FetchErrors == {"rpc", "parse", "readlink"}

VARIABLES
    live,               \* containers the runtime has (answer of ListContainers)
    stop,               \* StopChan is closed
    policy,             \* dm.SystemMonitor != nil && cfg.GlobalCfg.Policy
    Containers,         \* dm.Containers
    EndPoints,          \* dm.EndPoints
    NsMap,              \* the system monitor's NsMap
    ContainersLock,     \* dm.ContainersLock
    EndPointsLock,      \* dm.EndPointsLock
    tracked,            \* Crio.containers
    pc,                 \* position of MonitorCrioEvents
    containers,         \* MonitorCrioEvents: containers
    rpcFailed,          \* GetCrioContainers: the ListContainers call failed in this cycle
    newContainers,      \* MonitorCrioEvents: newContainers still to visit
    deletedContainers,  \* MonitorCrioEvents: deletedContainers still to visit
    invalidContainers,  \* MonitorCrioEvents: invalidContainers
    fetchFailed,        \* IDs of this cycle whose GetContainerInfo returned an error
    cur,                \* UpdateCrioContainer: containerID
    container,          \* UpdateCrioContainer: container
    ret,                \* what the last call of UpdateCrioContainer in this cycle returned
    deferredFor,        \* consecutive equal-length cycles that left tracked # containers (up to 2)
    liveChanges,        \* number of changes of the runtime's list so far
    envWrites           \* number of writes by the other registry users so far

vars == <<live, stop, policy, Containers, EndPoints, NsMap, ContainersLock,
          EndPointsLock, tracked, pc, containers, rpcFailed, newContainers,
          deletedContainers, invalidContainers, fetchFailed, cur, container,
          ret, deferredFor, liveChanges, envWrites>>

registry == <<Containers, EndPoints, NsMap>>

locks == <<ContainersLock, EndPointsLock>>

cycleLocals == <<containers, rpcFailed, newContainers, deletedContainers,
                 invalidContainers, fetchFailed>>

callLocals == <<cur, container>>

env == <<live, stop, policy, liveChanges, envWrites>>

(* ------------------------- tp.Container ------------------------------- *)

NoContainer ==
    [ContainerID |-> "", ContainerName |-> "", ContainerImage |-> "",
     NamespaceName |-> "", EndPointName |-> "", Labels |-> "",
     AppArmorProfile |-> "", MergedDir |-> "", PidNS |-> 0, MntNS |-> 0,
     PolicyEnabled |-> FALSE, ProcessVisibilityEnabled |-> FALSE,
     FileVisibilityEnabled |-> FALSE, NetworkVisibilityEnabled |-> FALSE,
     CapabilitiesVisibilityEnabled |-> FALSE]

\* What Sscanf got out of /proc/<pid>/ns/pid and /proc/<pid>/ns/mnt of the
\* container's process (0 when it failed and only warned).
Statuses == [pidns : NsVals, mntns : NsVals]

\* GetContainerInfo on a successful status answer
GetContainerInfo(id, st) ==
    [NoContainer EXCEPT
        !.ContainerID = id,
        !.ContainerName = "status-name",
        !.NamespaceName = IF Labelled(id) THEN PodOf(id)[1] ELSE "Unknown",
        !.EndPointName = IF Labelled(id) THEN PodOf(id)[2] ELSE "Unknown",
        !.AppArmorProfile = ProfileOf(id),
        !.MergedDir = "/rootfs",
        !.PidNS = st.pidns,
        !.MntNS = st.mntns]

(* --------------------------- SetDiffer -------------------------------- *)

\* GetCrioContainers: the pair <<containers, err>> it returns.  The err of
\* the if statement shadows the function's err, which is never assigned:
\* a failed call returns the nil map and the nil error.
GetCrioContainers(ok, list) ==
    IF ok THEN <<list, FALSE>> ELSE <<{}, FALSE>>

\* GetNewCrioContainers returning every listed container
GetNewCrioContainersAll(active, known) == active

GetNewCrioContainers(active, known) == {id \in active : id \notin known}

GetDeletedCrioContainers(active, known) == {id \in known : id \notin active}

(* ------------------------- kl.ContainsElement etc. -------------------- *)

ContainsElement(s, x) == \E i \in 1..Len(s) : s[i] = x

\* lines 241-243 without the ContainsElement test
AppendAlways(s, x) == Append(s, x)

AppendIfAbsent(s, x) == IF ContainsElement(s, x) THEN s ELSE Append(s, x)

FirstIndex(s, x) == CHOOSE i \in 1..Len(s) : s[i] = x /\ \A j \in 1..(i-1) : s[j] # x

\* the removal left out
RemoveFirstSkipped(s, x) == s

\* append(s[:i], s[i+1:]...) at the first i with s[i] = x
RemoveFirst(s, x) ==
    IF ContainsElement(s, x)
    THEN LET i == FirstIndex(s, x)
         IN  SubSeq(s, 1, i - 1) \o SubSeq(s, i + 1, Len(s))
    ELSE s

Matches(endPoint, c) ==
    /\ endPoint.NamespaceName = c.NamespaceName
    /\ endPoint.EndPointName = c.EndPointName

HasMatch(eps, c) == \E i \in 1..Len(eps) : Matches(eps[i], c)

FirstMatch(eps, c) ==
    CHOOSE i \in 1..Len(eps) : Matches(eps[i], c) /\ \A j \in 1..(i-1) : ~Matches(eps[j], c)

(* ------------------------- UpdateCrioContainer ------------------------ *)

\* line 219 with || for &&
IsUnresolvedEither(old) == old.PidNS = 0 \/ old.MntNS = 0

\* line 219 without the condition: every existing record is merged over
IsUnresolvedAlways(old) == TRUE

\* line 219: the existing record has no kernel namespace yet
IsUnresolved(old) == old.PidNS = 0 /\ old.MntNS = 0

\* lines 220-232 left out: the fetched record replaces the existing one
MergeExistingOverwrites(old, new) == new

\* lines 220-232: what is written over an unresolved record
MergeExisting(old, new) ==
    [new EXCEPT
        !.NamespaceName = old.NamespaceName,
        !.EndPointName = old.EndPointName,
        !.Labels = old.Labels,
        !.ContainerName = old.ContainerName,
        !.ContainerImage = old.ContainerImage,
        !.PolicyEnabled = old.PolicyEnabled,
        !.ProcessVisibilityEnabled = old.ProcessVisibilityEnabled,
        !.FileVisibilityEnabled = old.FileVisibilityEnabled,
        !.NetworkVisibilityEnabled = old.NetworkVisibilityEnabled,
        !.CapabilitiesVisibilityEnabled = old.CapabilitiesVisibilityEnabled]

\* lines 238-252: the first matching endpoint gains the ID and the profile
LinkEndPoint(eps, c) ==
    IF HasMatch(eps, c)
    THEN LET i == FirstMatch(eps, c)
         IN  [eps EXCEPT
                 ![i].Containers = AppendIfAbsent(eps[i].Containers, c.ContainerID),
                 ![i].AppArmorProfiles = AppendIfAbsent(eps[i].AppArmorProfiles, c.AppArmorProfile)]
    ELSE eps

\* lines 276-296: the first matching endpoint loses the ID and the profile
UnlinkEndPoint(eps, c) ==
    IF HasMatch(eps, c)
    THEN LET i == FirstMatch(eps, c)
         IN  [eps EXCEPT
                 ![i].Containers = RemoveFirst(eps[i].Containers, c.ContainerID),
                 ![i].AppArmorProfiles = RemoveFirst(eps[i].AppArmorProfiles, c.AppArmorProfile)]
    ELSE eps

\* lines 354-356 left out
RemoveInvalidSkipped(known, invalid) == known

\* lines 354-356
RemoveInvalid(known, invalid) == known \ invalid

\* lines 259 and 299 without the condition
MonitorsPolicyAlways == TRUE

\* lines 259 and 299: dm.SystemMonitor != nil && cfg.GlobalCfg.Policy
MonitorsPolicy == policy

\* an Unlock() left out: the lock stays with its holder
UnlockSkipped(l) == l

\* dm.ContainersLock.Unlock(), dm.EndPointsLock.Unlock(): what the lock is after it
Unlock(l) == "free"

\* the map write left out
PutSkipped(m, k, v) == m

Put(m, k, v) == [x \in (DOMAIN m) \cup {k} |-> IF x = k THEN v ELSE m[x]]

Drop(m, k) == [x \in (DOMAIN m) \ {k} |-> m[x]]

\* line 267 with ok not looked at
FoundAlways(m, k) == TRUE

\* line 267: the ok of `container, ok := dm.Containers[containerID]`
Found(m, k) == k \in DOMAIN m

\* line 267: the value of a map read, the zero value for a missing key
Lookup(m, k) == IF k \in DOMAIN m THEN m[k] ELSE NoContainer

EmptyMap == [x \in {} |-> NoContainer]

NoRet == [action |-> "", id |-> "", value |-> FALSE]

Return(a, id, v) == [action |-> a, id |-> id, value |-> v]

(* ------------------------------ Init ---------------------------------- *)

Init ==
    /\ live \in SUBSET IDs
    /\ stop = FALSE
    /\ policy \in BOOLEAN
    /\ Containers = EmptyMap
    /\ EndPoints = <<>>
    /\ NsMap = [x \in {} |-> <<0, 0>>]
    /\ ContainersLock = "free"
    /\ EndPointsLock = "free"
    /\ tracked = {}
    /\ pc = "start"
    /\ containers = {}
    /\ rpcFailed = FALSE
    /\ newContainers = {}
    /\ deletedContainers = {}
    /\ invalidContainers = {}
    /\ fetchFailed = {}
    /\ cur = ""
    /\ container = NoContainer
    /\ ret = NoRet
    /\ deferredFor = 0
    /\ liveChanges = 0
    /\ envWrites = 0

(* ---------------------- MonitorCrioEvents ----------------------------- *)

\* the select without its StopChan case
StopSeenNever == FALSE

\* lines 324-325: the receive from StopChan is ready, and the select takes it
\* rather than the default case
StopSeen == stop

\* lines 312-316: NewCrioHandler; no handler, no loop
Start ==
    /\ pc = "start"
    /\ \E dialed \in BOOLEAN : pc' = IF dialed THEN "top" ELSE "done"
    /\ UNCHANGED <<registry, locks, tracked, cycleLocals, callLocals, ret, env>>
    /\ UNCHANGED deferredFor

\* lines 324-326: the stop signal is seen at the top of an iteration
Stopped ==
    /\ pc = "top"
    /\ StopSeen
    /\ pc' = "done"
    /\ UNCHANGED <<registry, locks, tracked, cycleLocals, callLocals, ret, env>>
    /\ UNCHANGED deferredFor

\* lines 328-339: list the containers, leave on an error, sleep and
\* continue when the two maps have the same length
Poll ==
    /\ pc = "top"
    /\ ~StopSeen
    /\ \E ok \in BOOLEAN :
          LET r == GetCrioContainers(ok, live)
          IN  /\ containers' = r[1]
              /\ rpcFailed' = ~ok
              /\ IF r[2]
                 THEN /\ pc' = "done"
                      /\ UNCHANGED deferredFor
                 ELSE IF Cardinality(r[1]) = Cardinality(tracked)
                 THEN /\ pc' = "top"
                      /\ deferredFor' = IF r[1] = tracked THEN 0
                                        ELSE IF deferredFor < 2 THEN deferredFor + 1
                                        ELSE deferredFor
                 ELSE /\ pc' = "diff"
                      /\ deferredFor' = 0
    /\ newContainers' = {}
    /\ deletedContainers' = {}
    /\ invalidContainers' = {}
    /\ fetchFailed' = {}
    /\ ret' = NoRet
    /\ UNCHANGED <<registry, locks, tracked, callLocals, env>>

\* lines 341-344: GetNewCrioContainers, then GetDeletedCrioContainers, which
\* also makes the listed map the handler's map
Diff ==
    /\ pc = "diff"
    /\ newContainers' = GetNewCrioContainers(containers, tracked)
    /\ deletedContainers' = GetDeletedCrioContainers(containers, tracked)
    /\ tracked' = containers
    /\ pc' = "adds"
    /\ UNCHANGED <<registry, locks, containers, rpcFailed, invalidContainers,
                   fetchFailed, callLocals, ret, env>>
    /\ UNCHANGED deferredFor

\* lines 204-213 called from 347-350: GetContainerInfo and its two early returns
StartFetch(id) ==
    /\ pc = "adds"
    /\ id \in newContainers
    /\ newContainers' = newContainers \ {id}
    /\ \/ \E e \in FetchErrors :
             /\ invalidContainers' = invalidContainers \cup {id}
             /\ fetchFailed' = fetchFailed \cup {id}
             /\ ret' = Return("start", id, FALSE)
             /\ pc' = "adds"
             /\ UNCHANGED callLocals
       \/ \E st \in Statuses :
             IF GetContainerInfo(id, st).ContainerID = ""
             THEN /\ invalidContainers' = invalidContainers \cup {id}
                  /\ ret' = Return("start", id, FALSE)
                  /\ pc' = "adds"
                  /\ UNCHANGED <<fetchFailed, callLocals>>
             ELSE /\ cur' = id
                  /\ container' = GetContainerInfo(id, st)
                  /\ pc' = "start_lock"
                  /\ UNCHANGED <<invalidContainers, fetchFailed, ret>>
    /\ UNCHANGED <<registry, locks, tracked, containers, rpcFailed,
                   deletedContainers, env>>
    /\ UNCHANGED deferredFor

\* line 215
StartLockContainers ==
    /\ pc = "start_lock"
    /\ ContainersLock = "free"
    /\ ContainersLock' = "crio"
    /\ pc' = "start_merge"
    /\ UNCHANGED <<registry, EndPointsLock, tracked, cycleLocals, callLocals,
                   ret, env>>
    /\ UNCHANGED deferredFor

\* lines 216-257: insert, complete or reject, and unlock
StartMerge ==
    /\ pc = "start_merge"
    /\ ContainersLock' = Unlock(ContainersLock)
    /\ IF container.ContainerID \notin DOMAIN Containers
       THEN /\ Containers' = Put(Containers, container.ContainerID, container)
            /\ pc' = "start_nsmap"
            /\ UNCHANGED <<container, cur, invalidContainers, ret>>
       ELSE IF IsUnresolved(Containers[container.ContainerID])
       THEN /\ container' = MergeExisting(Containers[container.ContainerID], container)
            /\ Containers' = Put(Containers, container.ContainerID, container')
            /\ pc' = "start_lockep"
            /\ UNCHANGED <<cur, invalidContainers, ret>>
       ELSE /\ invalidContainers' = invalidContainers \cup {cur}
            /\ ret' = Return("start", cur, FALSE)
            /\ pc' = "adds"
            /\ cur' = ""
            /\ container' = NoContainer
            /\ UNCHANGED Containers
    /\ UNCHANGED <<EndPoints, NsMap, EndPointsLock, tracked, containers, rpcFailed,
                   newContainers, deletedContainers, fetchFailed, env>>
    /\ UNCHANGED deferredFor

\* line 237
StartLockEndPoints ==
    /\ pc = "start_lockep"
    /\ EndPointsLock = "free"
    /\ EndPointsLock' = "crio"
    /\ pc' = "start_link"
    /\ UNCHANGED <<registry, ContainersLock, tracked, cycleLocals, callLocals,
                   ret, env>>
    /\ UNCHANGED deferredFor

\* lines 238-253
StartLink ==
    /\ pc = "start_link"
    /\ EndPoints' = LinkEndPoint(EndPoints, container)
    /\ EndPointsLock' = Unlock(EndPointsLock)
    /\ pc' = "start_nsmap"
    /\ UNCHANGED <<Containers, NsMap, ContainersLock, tracked, cycleLocals,
                   callLocals, ret, env>>
    /\ UNCHANGED deferredFor

\* lines 259-264 and 307
StartNsMap ==
    /\ pc = "start_nsmap"
    /\ NsMap' = IF MonitorsPolicy
                THEN [x \in (DOMAIN NsMap) \cup {cur} |->
                         IF x = cur THEN <<container.PidNS, container.MntNS>> ELSE NsMap[x]]
                ELSE NsMap
    /\ ret' = Return("start", cur, TRUE)
    /\ pc' = "adds"
    /\ cur' = ""
    /\ container' = NoContainer
    /\ UNCHANGED <<Containers, EndPoints, locks, tracked, cycleLocals, env>>
    /\ UNCHANGED deferredFor

\* lines 354-356, once every new container has been visited
DropInvalid ==
    /\ pc = "adds"
    /\ newContainers = {}
    /\ tracked' = RemoveInvalid(tracked, invalidContainers)
    /\ pc' = "dels"
    /\ UNCHANGED <<registry, locks, cycleLocals, callLocals, ret, env>>
    /\ UNCHANGED deferredFor

\* line 266 called from 359-361
DestroyLockContainers(id) ==
    /\ pc = "dels"
    /\ id \in deletedContainers
    /\ ContainersLock = "free"
    /\ ContainersLock' = "crio"
    /\ deletedContainers' = deletedContainers \ {id}
    /\ cur' = id
    /\ pc' = "destroy_delete"
    /\ UNCHANGED <<registry, EndPointsLock, tracked, containers, rpcFailed,
                   newContainers, invalidContainers, fetchFailed, container,
                   ret, env>>
    /\ UNCHANGED deferredFor

\* lines 267-273
DestroyDelete ==
    /\ pc = "destroy_delete"
    /\ ContainersLock' = Unlock(ContainersLock)
    /\ IF ~Found(Containers, cur)
       THEN /\ ret' = Return("destroy", cur, FALSE)
            /\ pc' = "dels"
            /\ cur' = ""
            /\ UNCHANGED <<Containers, container>>
       ELSE /\ container' = Lookup(Containers, cur)
            /\ Containers' = Drop(Containers, cur)
            /\ pc' = "destroy_lockep"
            /\ UNCHANGED <<cur, ret>>
    /\ UNCHANGED <<EndPoints, NsMap, EndPointsLock, tracked, cycleLocals,
                   env>>
    /\ UNCHANGED deferredFor

\* line 275
DestroyLockEndPoints ==
    /\ pc = "destroy_lockep"
    /\ EndPointsLock = "free"
    /\ EndPointsLock' = "crio"
    /\ pc' = "destroy_unlink"
    /\ UNCHANGED <<registry, ContainersLock, tracked, cycleLocals, callLocals,
                   ret, env>>
    /\ UNCHANGED deferredFor

\* lines 276-297
DestroyUnlink ==
    /\ pc = "destroy_unlink"
    /\ EndPoints' = UnlinkEndPoint(EndPoints, container)
    /\ EndPointsLock' = Unlock(EndPointsLock)
    /\ pc' = "destroy_nsmap"
    /\ UNCHANGED <<Containers, NsMap, ContainersLock, tracked, cycleLocals,
                   callLocals, ret, env>>
    /\ UNCHANGED deferredFor

\* lines 299-307
DestroyNsMap ==
    /\ pc = "destroy_nsmap"
    /\ NsMap' = IF MonitorsPolicy THEN [x \in (DOMAIN NsMap) \ {cur} |-> NsMap[x]] ELSE NsMap
    /\ ret' = Return("destroy", cur, TRUE)
    /\ pc' = "dels"
    /\ cur' = ""
    /\ container' = NoContainer
    /\ UNCHANGED <<Containers, EndPoints, locks, tracked, cycleLocals, env>>
    /\ UNCHANGED deferredFor

\* line 365, once every deleted container has been visited
Sleep ==
    /\ pc = "dels"
    /\ deletedContainers = {}
    /\ pc' = "top"
    /\ UNCHANGED <<registry, locks, tracked, cycleLocals, callLocals, ret, env>>
    /\ UNCHANGED deferredFor

(* ------------------- the runtime and the other users ------------------ *)

\* the runtime starts and removes containers; the list is read by Poll only,
\* so a change at any other position is the same change seen at the next Poll
RuntimeChange ==
    /\ pc = "top"
    /\ liveChanges < MaxLiveChanges
    /\ \E l \in (SUBSET IDs) \ {live} : live' = l
    /\ liveChanges' = liveChanges + 1
    /\ UNCHANGED <<stop, policy, envWrites, registry, locks, tracked, pc,
                   cycleLocals, callLocals, ret>>
    /\ UNCHANGED deferredFor

\* the daemon closes StopChan
CloseStopChan ==
    /\ ~stop
    /\ stop' = TRUE
    /\ UNCHANGED <<live, policy, liveChanges, envWrites, registry, locks,
                   tracked, pc, cycleLocals, callLocals, ret>>
    /\ UNCHANGED deferredFor

\* the pod watcher (or another runtime handler) puts a record for a container
\* of a pod into dm.Containers, with or without kernel namespaces
PodRecord(id, pidns, mntns) ==
    /\ envWrites < MaxEnvWrites
    /\ ContainersLock = "free"
    /\ id \notin DOMAIN Containers
    /\ Containers' = Put(Containers, id,
                         [NoContainer EXCEPT
                             !.ContainerID = id,
                             !.ContainerName = "pod-name",
                             !.ContainerImage = "pod-image",
                             !.NamespaceName = PodOf(id)[1],
                             !.EndPointName = PodOf(id)[2],
                             !.PidNS = pidns,
                             !.MntNS = mntns])
    /\ envWrites' = envWrites + 1
    /\ UNCHANGED <<live, stop, policy, liveChanges, EndPoints, NsMap, locks,
                   tracked, pc, cycleLocals, callLocals, ret>>
    /\ UNCHANGED deferredFor

\* the policy logic sets the flags and labels of a record
PolicyUpdate(id) ==
    /\ envWrites < MaxEnvWrites
    /\ ContainersLock = "free"
    /\ id \in DOMAIN Containers
    /\ ~Containers[id].PolicyEnabled
    /\ Containers' = [Containers EXCEPT
                         ![id].PolicyEnabled = TRUE,
                         ![id].Labels = "app=web",
                         ![id].ProcessVisibilityEnabled = TRUE,
                         ![id].FileVisibilityEnabled = TRUE,
                         ![id].NetworkVisibilityEnabled = TRUE,
                         ![id].CapabilitiesVisibilityEnabled = TRUE]
    /\ envWrites' = envWrites + 1
    /\ UNCHANGED <<live, stop, policy, liveChanges, EndPoints, NsMap, locks,
                   tracked, pc, cycleLocals, callLocals, ret>>
    /\ UNCHANGED deferredFor

\* the pod watcher adds the endpoint of a pod
AddEndPoint(key) ==
    /\ EndPointsLock = "free"
    /\ \A i \in 1..Len(EndPoints) :
          <<EndPoints[i].NamespaceName, EndPoints[i].EndPointName>> # key
    /\ EndPoints' = Append(EndPoints,
                           [NamespaceName |-> key[1], EndPointName |-> key[2],
                            Containers |-> <<>>, AppArmorProfiles |-> <<>>])
    /\ UNCHANGED <<live, stop, policy, liveChanges, envWrites, Containers, NsMap, locks,
                   tracked, pc, cycleLocals, callLocals, ret>>
    /\ UNCHANGED deferredFor

Next ==
    \/ Start
    \/ Stopped
    \/ Poll
    \/ Diff
    \/ \E id \in IDs : StartFetch(id)
    \/ StartLockContainers
    \/ StartMerge
    \/ StartLockEndPoints
    \/ StartLink
    \/ StartNsMap
    \/ DropInvalid
    \/ \E id \in IDs : DestroyLockContainers(id)
    \/ DestroyDelete
    \/ DestroyLockEndPoints
    \/ DestroyUnlink
    \/ DestroyNsMap
    \/ Sleep
    \/ RuntimeChange
    \/ CloseStopChan
    \/ \E id \in IDs, pidns \in NsVals, mntns \in NsVals : PodRecord(id, pidns, mntns)
    \/ \E id \in IDs : PolicyUpdate(id)
    \/ \E key \in EndPointKeys : AddEndPoint(key)

Spec == Init /\ [][Next]_vars

\* the steps of the goroutine that runs MonitorCrioEvents
Engine ==
    \/ Start
    \/ Stopped
    \/ Poll
    \/ Diff
    \/ \E id \in IDs : StartFetch(id)
    \/ StartLockContainers
    \/ StartMerge
    \/ StartLockEndPoints
    \/ StartLink
    \/ StartNsMap
    \/ DropInvalid
    \/ \E id \in IDs : DestroyLockContainers(id)
    \/ DestroyDelete
    \/ DestroyLockEndPoints
    \/ DestroyUnlink
    \/ DestroyNsMap
    \/ Sleep

\* the state after construction in a daemon with policy enforcement whose
\* runtime has every container running
FairInit ==
    /\ live = IDs
    /\ stop = FALSE
    /\ policy = TRUE
    /\ Containers = EmptyMap
    /\ EndPoints = <<>>
    /\ NsMap = [x \in {} |-> <<0, 0>>]
    /\ ContainersLock = "free"
    /\ EndPointsLock = "free"
    /\ tracked = {}
    /\ pc = "start"
    /\ containers = {}
    /\ rpcFailed = FALSE
    /\ newContainers = {}
    /\ deletedContainers = {}
    /\ invalidContainers = {}
    /\ fetchFailed = {}
    /\ cur = ""
    /\ container = NoContainer
    /\ ret = NoRet
    /\ deferredFor = 0
    /\ liveChanges = 0
    /\ envWrites = 0

\* the goroutine is scheduled, its calls return and its sleeps end: it takes
\* its next step when that step stays possible
FairSpec == FairInit /\ [][Next]_vars /\ WF_vars(Engine)

(* ----------------------------- properties ----------------------------- *)

\* positions inside UpdateCrioContainer(.., "start") after GetContainerInfo
StartPcs == {"start_lock", "start_merge", "start_lockep", "start_link", "start_nsmap"}

\* positions inside UpdateCrioContainer(.., "destroy")
DestroyPcs == {"destroy_delete", "destroy_lockep", "destroy_unlink", "destroy_nsmap"}

\* positions after lines 354-356 of a cycle, up to the next list call
AfterDropPcs == {"dels", "top", "done"} \cup DestroyPcs

\* the step is the start action failing in GetContainerInfo (lines 206-209)
FetchErrorStep == ~(fetchFailed' \subseteq fetchFailed)

\* the step is the list call of a new cycle, made after a cycle in which
\* GetContainerInfo failed for some container
PollAfterFetchError == pc = "top" /\ fetchFailed # {} /\ fetchFailed' = {}

\* C1: when the list call fails in a cycle, the loop ends in that cycle, and
\* no container is evicted in that cycle.
C1_ListErrorEndsLoop ==
    rpcFailed => /\ pc = "done"
                 /\ ~(ret.action = "destroy" /\ ret.value)

\* the endpoint of container c in eps, if there is one, lists c and its profile
Linked(eps, c) ==
    HasMatch(eps, c) =>
        /\ ContainsElement(eps[FirstMatch(eps, c)].Containers, c.ContainerID)
        /\ ContainsElement(eps[FirstMatch(eps, c)].AppArmorProfiles, c.AppArmorProfile)

\* C2: whenever the start action has written its record, by inserting it or
\* by completing an unresolved one, and goes on to return true, an endpoint
\* with the record's namespace and endpoint name lists the container's ID
\* and its profile.
C2_StartLinksEndPoint ==
    [][(pc \in {"start_merge", "start_link"} /\ pc' = "start_nsmap")
          => Linked(EndPoints', Containers'[cur])]_vars

\* C3: a cycle that takes the equal-length path although the listed set
\* differs from the tracked set is followed by a cycle that does not leave
\* that difference.
C3_SwapCorrectedNextCycle == deferredFor <= 1

\* C4: a container whose GetContainerInfo failed in one cycle and that the
\* runtime still lists is an added container of the next cycle: the next
\* cycle whose list call succeeds goes on to the diff.
C4_FailedFetchRetriedNextCycle ==
    [][(PollAfterFetchError /\ ~rpcFailed' /\ fetchFailed \cap live # {})
          => pc' = "diff"]_vars

\* C5: when GetContainerInfo fails for an added container, the step writes
\* nothing to the container map, the endpoints or the NsMap, returns false
\* to the loop, which goes on with the cycle; no later call of the cycle is
\* for that container, and after lines 354-356 the container is not tracked.
C5_FetchErrorLeavesRegistry ==
    /\ [][FetchErrorStep =>
             /\ UNCHANGED <<Containers, EndPoints, NsMap>>
             /\ pc' = "adds"
             /\ ret'.action = "start" /\ ~ret'.value
             /\ fetchFailed' \ fetchFailed = {ret'.id}]_vars
    /\ [](pc \in StartPcs \cup DestroyPcs => cur \notin fetchFailed)
    /\ [](pc \in AfterDropPcs => fetchFailed \cap tracked = {})

\* a cycle is over in which one container was registered and the fetch of
\* another failed
C5_Witness ==
    /\ pc = "top"
    /\ fetchFailed # {}
    /\ tracked # {}
    /\ tracked \subseteq DOMAIN Containers

\* the fields of a record that the policy logic and the pod watcher own
Metadata(c) ==
    <<c.PolicyEnabled, c.Labels, c.ProcessVisibilityEnabled, c.FileVisibilityEnabled,
      c.NetworkVisibilityEnabled, c.CapabilitiesVisibilityEnabled, c.NamespaceName,
      c.EndPointName, c.ContainerName, c.ContainerImage>>

\* the step is a step of the start action on a container that has a record
StartStepOnRecord == pc \in StartPcs /\ pc' # pc /\ cur \in DOMAIN Containers

\* C6: a start action on a container that already has a record, whether it
\* completes the record or is rejected, leaves the record's PolicyEnabled,
\* Labels, visibility flags, NamespaceName, EndPointName, ContainerName and
\* ContainerImage as they are when it takes the lock, whatever was written
\* to them after GetContainerInfo.
C6_MetadataPreserved ==
    [][StartStepOnRecord =>
          /\ cur \in DOMAIN Containers'
          /\ Metadata(Containers'[cur]) = Metadata(Containers[cur])]_vars

\* an unresolved record whose flags and labels the policy logic had set has
\* been completed: it has namespaces now, and still the flags, labels and names
C6_Witness ==
    /\ pc = "start_lockep"
    /\ cur \in DOMAIN Containers
    /\ Containers[cur].PidNS # 0
    /\ Containers[cur].PolicyEnabled
    /\ Containers[cur].Labels = "app=web"
    /\ Containers[cur].ContainerName = "pod-name"
    /\ Containers[cur].NamespaceName = "ns1"
    /\ ~Labelled(cur)

\* C7: once the record of a container has a non-zero PidNS or MntNS, no step
\* of a start action for that container changes its PidNS or MntNS.
C7_NamespaceWriteOnce ==
    [][(StartStepOnRecord /\ ~(Containers[cur].PidNS = 0 /\ Containers[cur].MntNS = 0)) =>
          /\ cur \in DOMAIN Containers'
          /\ Containers'[cur].PidNS = Containers[cur].PidNS
          /\ Containers'[cur].MntNS = Containers[cur].MntNS]_vars

\* the last call returned false for a container whose GetContainerInfo had
\* succeeded: it was rejected
Rejected(id) ==
    /\ pc = "adds"
    /\ ret = Return("start", id, FALSE)
    /\ id \notin fetchFailed
    /\ id \in DOMAIN Containers

\* a start action was rejected on a record with a PidNS and no MntNS
C7_Witness ==
    \E id \in IDs :
        /\ Rejected(id)
        /\ Containers[id].PidNS # 0
        /\ Containers[id].MntNS = 0

\* C8: a start action on a container whose record has both PidNS and MntNS
\* returns false and leaves the container map, the endpoints and the NsMap
\* as they are.
C8_StartIdempotent ==
    [][(/\ pc = "start_merge" /\ pc' # pc /\ cur \in DOMAIN Containers
        /\ Containers[cur].PidNS # 0 /\ Containers[cur].MntNS # 0) =>
          /\ pc' = "adds"
          /\ ret' = Return("start", cur, FALSE)
          /\ UNCHANGED <<Containers, EndPoints, NsMap>>]_vars

\* a start action was rejected on a fully resolved record
C8_Witness ==
    \E id \in IDs :
        /\ Rejected(id)
        /\ Containers[id].PidNS # 0
        /\ Containers[id].MntNS # 0

\* C9: the destroy action on a container that has a record removes the
\* record, and when it has updated the endpoints no endpoint with the
\* record's namespace and endpoint name lists the container.
C9_DestroyUnlinks ==
    /\ [][(pc = "destroy_delete" /\ pc' # pc /\ cur \in DOMAIN Containers) =>
             /\ pc' = "destroy_lockep"
             /\ cur \notin DOMAIN Containers'
             /\ container' = Containers[cur]]_vars
    /\ [][(pc = "destroy_unlink" /\ pc' # pc) =>
             \A i \in 1..Len(EndPoints') :
                 Matches(EndPoints'[i], container) =>
                     ~ContainsElement(EndPoints'[i].Containers, cur)]_vars

\* the record is removed and its endpoint, which listed the container and
\* another one, is about to be updated
C9_Witness ==
    /\ pc = "destroy_unlink"
    /\ cur \notin DOMAIN Containers
    /\ HasMatch(EndPoints, container)
    /\ ContainsElement(EndPoints[FirstMatch(EndPoints, container)].Containers, cur)
    /\ Len(EndPoints[FirstMatch(EndPoints, container)].Containers) = 2

\* C10: the destroy action on a container listed in its endpoint, in a
\* cycle whose list call succeeded, takes no profile out of the endpoint's
\* AppArmorProfiles that is the profile of a container still listed in the
\* endpoint's Containers.
C10_SharedProfileKept ==
    [][(pc = "destroy_unlink" /\ pc' # pc /\ ~rpcFailed) =>
          \A i \in 1..Len(EndPoints') :
              \A j \in 1..Len(EndPoints'[i].Containers) :
                  LET id == EndPoints'[i].Containers[j]
                  IN  (/\ ContainsElement(EndPoints[i].Containers, cur)
                       /\ id \in DOMAIN Containers
                       /\ ContainsElement(EndPoints[i].AppArmorProfiles,
                                          Containers[id].AppArmorProfile))
                      => ContainsElement(EndPoints'[i].AppArmorProfiles,
                                         Containers[id].AppArmorProfile)]_vars

(* -------------------- the set differ on its own ----------------------- *)

\* the container IDs the two maps of the differ are drawn from
DiffIDs == {"c1", "c2", "c3"}

\* line 343: MonitorCrioEvents is about to diff a listed map against the
\* handler's map, for every pair of maps
DiffInit ==
    /\ containers \in SUBSET DiffIDs
    /\ tracked \in SUBSET DiffIDs
    /\ pc = "diff"
    /\ live = containers
    /\ stop = FALSE
    /\ policy = FALSE
    /\ Containers = EmptyMap
    /\ EndPoints = <<>>
    /\ NsMap = [x \in {} |-> <<0, 0>>]
    /\ ContainersLock = "free"
    /\ EndPointsLock = "free"
    /\ rpcFailed = FALSE
    /\ newContainers = {}
    /\ deletedContainers = {}
    /\ invalidContainers = {}
    /\ fetchFailed = {}
    /\ cur = ""
    /\ container = NoContainer
    /\ ret = NoRet
    /\ deferredFor = 0
    /\ liveChanges = 0
    /\ envWrites = 0

DiffNext == Diff

DiffSpec == DiffInit /\ [][DiffNext]_vars

\* C11: for every listed set A and tracked set B, the set GetNewCrioContainers
\* returns is disjoint from B, the set GetDeletedCrioContainers returns, called
\* after it on the same B, is disjoint from A, and B with the first set added
\* and the second removed is A.
C11_DiffCorrect ==
    [][(pc = "diff" /\ pc' # pc) =>
          /\ newContainers' \cap tracked = {}
          /\ deletedContainers' \cap containers = {}
          /\ (tracked \cup newContainers') \ deletedContainers' = containers]_vars

\* the differ has answered for maps that overlap, with containers on both sides
C11_Witness ==
    /\ pc = "adds"
    /\ newContainers # {}
    /\ deletedContainers # {}
    /\ containers \ newContainers # {}

\* positions of MonitorCrioEvents outside the locked parts of UpdateCrioContainer
OutsidePcs == {"start", "top", "diff", "adds", "dels", "done", "start_lock",
               "start_lockep", "start_nsmap", "destroy_lockep", "destroy_nsmap"}

\* C12: the handler never holds dm.ContainersLock and dm.EndPointsLock at the
\* same time: the container lock is free while it holds the endpoint lock, and
\* it holds neither lock outside the locked parts of UpdateCrioContainer, in
\* particular after every return.
C12_LocksNeverNested ==
    /\ ~(ContainersLock = "crio" /\ EndPointsLock = "crio")
    /\ pc \in OutsidePcs => (ContainersLock = "free" /\ EndPointsLock = "free")
    /\ pc \in {"start_merge", "destroy_delete"} => ContainersLock = "crio"
    /\ pc \in {"start_link", "destroy_unlink"} => EndPointsLock = "crio"

\* the start action has released the container lock after completing a
\* record and holds the endpoint lock
C12_Witness ==
    /\ pc = "start_link"
    /\ EndPointsLock = "crio"
    /\ ContainersLock = "free"
    /\ cur \in DOMAIN Containers

\* C13: the stop signal is seen at the top of an iteration only: a cycle in
\* flight when StopChan is closed is not cut short; with StopChan closed the
\* loop at the top of an iteration makes no list call and starts no cycle,
\* it returns, leaving the registry and the tracked set as they are; and
\* once StopChan is closed the loop eventually returns.
C13_CooperativeStop ==
    /\ [][(stop /\ pc \notin {"start", "top", "done"}) => pc' # "done"]_vars
    /\ [][(stop /\ pc = "top") =>
             /\ pc' \in {"top", "done"}
             /\ UNCHANGED <<cycleLocals, callLocals, tracked, ret, NsMap, locks>>]_vars
    /\ [][(stop /\ pc = "top" /\ pc' = "done") => UNCHANGED registry]_vars
    /\ [][pc = "done" => (pc' = "done" /\ UNCHANGED <<tracked, NsMap, cycleLocals>>)]_vars
    /\ (stop ~> pc = "done")

\* StopChan was closed in the middle of a cycle, and the loop has returned
\* with what that cycle registered still in the registry
C13_Witness ==
    /\ pc = "done"
    /\ stop
    /\ tracked # {}
    /\ tracked \subseteq DOMAIN Containers
    /\ ret.action = "start"
    /\ ret.value

(* ------------------- the destroy action on its own -------------------- *)

\* the records a container can have: none, or one with any namespaces
RecordsOf(id) ==
    {<<>>} \cup {<<GetContainerInfo(id, st)>> : st \in Statuses}

\* the endpoint lists a pod's endpoint can have
EndPointLists ==
    {<<>>} \cup
    {<<[NamespaceName |-> key[1], EndPointName |-> key[2],
        Containers |-> cs, AppArmorProfiles |-> ps]>> :
        key \in EndPointKeys,
        cs \in {<<>>, <<"c1">>, <<"c2">>, <<"c1", "c2">>, <<"c2", "c1">>},
        ps \in {<<>>, <<"p1">>}}

\* lines 358-361: MonitorCrioEvents is about to call the destroy action for
\* some containers, tracked or not, on a registry in any state
EvictInit ==
    /\ \E r1 \in RecordsOf("c1"), r2 \in RecordsOf("c2") :
          Containers = [id \in {x \in IDs : (IF x = "c1" THEN r1 ELSE r2) # <<>>} |->
                           (IF id = "c1" THEN r1 ELSE r2)[1]]
    /\ EndPoints \in EndPointLists
    /\ policy \in BOOLEAN
    /\ \E known \in SUBSET IDs : NsMap = [x \in known |-> <<1, 1>>]
    /\ deletedContainers \in (SUBSET IDs) \ {{}}
    /\ pc = "dels"
    /\ live = {}
    /\ stop = FALSE
    /\ ContainersLock = "free"
    /\ EndPointsLock = "free"
    /\ tracked = {}
    /\ containers = {}
    /\ rpcFailed = FALSE
    /\ newContainers = {}
    /\ invalidContainers = {}
    /\ fetchFailed = {}
    /\ cur = ""
    /\ container = NoContainer
    /\ ret = NoRet
    /\ deferredFor = 0
    /\ liveChanges = 0
    /\ envWrites = 0

EvictNext ==
    \/ \E id \in IDs : DestroyLockContainers(id)
    \/ DestroyDelete
    \/ DestroyLockEndPoints
    \/ DestroyUnlink
    \/ DestroyNsMap

EvictSpec == EvictInit /\ [][EvictNext]_vars

\* C14: the destroy action for a container that has no record returns false
\* at once and leaves the container map, every endpoint's Containers and
\* AppArmorProfiles, and the NsMap as they are.
C14_StaleRemoveIgnored ==
    [][(pc = "destroy_delete" /\ pc' # pc /\ cur \notin DOMAIN Containers) =>
          /\ pc' = "dels"
          /\ ret' = Return("destroy", cur, FALSE)
          /\ UNCHANGED <<Containers, EndPoints, NsMap>>]_vars

\* the destroy action has returned false for a container without a record
\* that an endpoint lists and the NsMap knows, with policy enforcement on
C14_Witness ==
    \E id \in IDs :
        /\ pc = "dels"
        /\ ret = Return("destroy", id, FALSE)
        /\ id \notin DOMAIN Containers
        /\ policy
        /\ id \in DOMAIN NsMap
        /\ EndPoints # <<>>
        /\ ContainsElement(EndPoints[1].Containers, id)
        /\ ContainsElement(EndPoints[1].AppArmorProfiles, ProfileOf(id))

\* the step registers container id in the NsMap, or changes its entry there
Registers(id) ==
    /\ id \in DOMAIN NsMap'
    /\ id \in DOMAIN NsMap => NsMap'[id] # NsMap[id]

\* the step takes container id out of the NsMap
Unregisters(id) == id \in DOMAIN NsMap /\ id \notin DOMAIN NsMap'

\* C15: without policy enforcement the NsMap is never written; with it, a
\* container is registered only by the step in which a start action for that
\* container, having written its record, returns true, and is unregistered
\* only by the step in which a destroy action for that container, having
\* found and removed its record, returns true.
C15_NsMapOnlyOnSuccess ==
    /\ [][~policy => UNCHANGED NsMap]_vars
    /\ [][\A id \in IDs :
             Registers(id) =>
                 /\ policy
                 /\ pc = "start_nsmap" /\ cur = id
                 /\ container.ContainerID = id
                 /\ NsMap'[id] = <<container.PidNS, container.MntNS>>
                 /\ ret' = Return("start", id, TRUE)]_vars
    /\ [][\A id \in IDs :
             Unregisters(id) =>
                 /\ policy
                 /\ pc = "destroy_nsmap" /\ cur = id
                 /\ container.ContainerID = id
                 /\ ret' = Return("destroy", id, TRUE)]_vars
    /\ [](pc \in {"start_nsmap", "destroy_nsmap"} => container.ContainerID = cur)
    /\ [](~policy => NsMap = [x \in {} |-> <<0, 0>>])

\* with policy enforcement on, a destroy action has unregistered one
\* container while another one stays registered
C15_Witness ==
    \E id \in IDs :
        /\ policy
        /\ pc = "dels"
        /\ ret = Return("destroy", id, TRUE)
        /\ id \notin DOMAIN NsMap
        /\ DOMAIN NsMap # {}

(* --------------- the start and destroy actions on their own ----------- *)

\* the record of a container that the pod watcher made, without namespaces
PodRecordOf(id) ==
    [NoContainer EXCEPT
        !.ContainerID = id,
        !.ContainerName = "pod-name",
        !.ContainerImage = "pod-image",
        !.NamespaceName = PodOf(id)[1],
        !.EndPointName = PodOf(id)[2]]

\* lines 346-361: MonitorCrioEvents is about to call the start action for
\* some containers and then the destroy action for some, on a registry in
\* any state whose endpoints list no container twice
UpdateInit ==
    /\ \E r1 \in RecordsOf("c1") \cup {<<PodRecordOf("c1")>>},
          r2 \in RecordsOf("c2") \cup {<<PodRecordOf("c2")>>} :
          Containers = [id \in {x \in IDs : (IF x = "c1" THEN r1 ELSE r2) # <<>>} |->
                           (IF id = "c1" THEN r1 ELSE r2)[1]]
    /\ EndPoints \in EndPointLists
    /\ policy = FALSE
    /\ NsMap = [x \in {} |-> <<0, 0>>]
    /\ newContainers \in SUBSET IDs
    /\ deletedContainers \in SUBSET IDs
    /\ pc = "adds"
    /\ live = newContainers
    /\ stop = FALSE
    /\ ContainersLock = "free"
    /\ EndPointsLock = "free"
    /\ tracked = newContainers
    /\ containers = newContainers
    /\ rpcFailed = FALSE
    /\ invalidContainers = {}
    /\ fetchFailed = {}
    /\ cur = ""
    /\ container = NoContainer
    /\ ret = NoRet
    /\ deferredFor = 0
    /\ liveChanges = 0
    /\ envWrites = 0

UpdateNext ==
    \/ \E id \in IDs : StartFetch(id)
    \/ StartLockContainers
    \/ StartMerge
    \/ StartLockEndPoints
    \/ StartLink
    \/ StartNsMap
    \/ DropInvalid
    \/ \E id \in IDs : DestroyLockContainers(id)
    \/ DestroyDelete
    \/ DestroyLockEndPoints
    \/ DestroyUnlink
    \/ DestroyNsMap

UpdateSpec == UpdateInit /\ [][UpdateNext]_vars

\* sequence s holds no value twice
NoDuplicates(s) == \A i, j \in 1..Len(s) : s[i] = s[j] => i = j

\* C16: no endpoint's Containers holds a container ID twice, whatever start
\* and destroy actions have run.
C16_EndPointContainersDistinct ==
    \A i \in 1..Len(EndPoints) : NoDuplicates(EndPoints[i].Containers)

\* a start action has completed the record of a container that its endpoint
\* listed already, next to another one
C16_Witness ==
    /\ pc = "start_nsmap"
    /\ cur \in DOMAIN Containers
    /\ Containers[cur].ContainerName = "pod-name"
    /\ EndPoints # <<>>
    /\ Len(EndPoints[1].Containers) = 2
    /\ ContainsElement(EndPoints[1].Containers, cur)

\* the step is a return of the start action for container id with value v
StartReturns(id, v) == ret' # ret /\ ret' = Return("start", id, v)

\* C17: in a cycle that goes past the equal-length test, invalidContainers
\* holds exactly the containers whose start action returned false, and from
\* lines 354-356 to the end of the cycle the tracked set is the listed set
\* without them; a cycle that takes the equal-length path leaves the tracked
\* set as it is.
C17_TrackedIsListedMinusInvalid ==
    /\ [](pc \in {"dels"} \cup DestroyPcs => tracked = containers \ invalidContainers)
    /\ [][(pc = "dels" /\ pc' = "top") =>
             tracked' = containers \ invalidContainers]_vars
    /\ [][\A id \in IDs :
             /\ StartReturns(id, FALSE) => invalidContainers' = invalidContainers \cup {id}
             /\ StartReturns(id, TRUE) => (/\ invalidContainers' = invalidContainers
                                           /\ id \notin invalidContainers)]_vars
    /\ [][(pc # "top" /\ invalidContainers' # invalidContainers) =>
             \E id \in IDs : StartReturns(id, FALSE)]_vars
    /\ [][(pc = "top" /\ pc' = "top") => tracked' = tracked]_vars

\* a cycle has ended in which one listed container was registered and the
\* start action of another was rejected
C17_Witness ==
    /\ pc = "top"
    /\ ~rpcFailed
    /\ containers = IDs
    /\ invalidContainers \ fetchFailed # {}
    /\ tracked # {}
    /\ tracked = containers \ invalidContainers

\* the list calls, the detail fetches and the namespace reads all succeed,
\* and the loop is neither refused its connection nor stopped
AllCallsSucceed ==
    /\ [](~rpcFailed)
    /\ [](fetchFailed = {})
    /\ [](pc \in {"start_lock", "start_merge"} =>
             (container.PidNS # 0 /\ container.MntNS # 0))
    /\ [](~stop)
    /\ [](pc # "done")

\* C18: when every call succeeds, then, the runtime's list having stopped
\* changing, the loop comes to stay at the top of its iterations, taking the
\* equal-length path only, with the tracked set equal to the listed set;
\* also when a listed container had a fully resolved record before the
\* handler saw it.
C18_SettlesOnLiveSet ==
    AllCallsSucceed => <>[](pc = "top" /\ tracked = live)

\* exactly one of the record's PidNS and MntNS is set
PartlyResolved(c) == (c.PidNS = 0) # (c.MntNS = 0)

\* C19: a start action on a container whose record has exactly one of PidNS
\* and MntNS set returns false and leaves the container map and the
\* endpoints as they are; the start action completes a record only when
\* both its PidNS and its MntNS are 0.
C19_PartlyResolvedRejected ==
    /\ [][(/\ pc = "start_merge" /\ pc' # pc /\ cur \in DOMAIN Containers
           /\ PartlyResolved(Containers[cur])) =>
             /\ pc' = "adds"
             /\ ret' = Return("start", cur, FALSE)
             /\ UNCHANGED <<Containers, EndPoints>>]_vars
    /\ [][(pc = "start_merge" /\ pc' = "start_lockep") =>
             /\ cur \in DOMAIN Containers
             /\ Containers[cur].PidNS = 0
             /\ Containers[cur].MntNS = 0]_vars

\* a start action was rejected on a record with a MntNS and no PidNS, while
\* the container's endpoint exists
C19_Witness ==
    \E id \in IDs :
        /\ Rejected(id)
        /\ Containers[id].PidNS = 0
        /\ Containers[id].MntNS # 0
        /\ EndPoints # <<>>

\* C20: between cycles every tracked container has a record in the
\* container map and, with policy enforcement on, an entry in the NsMap that
\* its successful start action made; so every container the loop calls the
\* destroy action for has both.  No other user of the registry deletes
\* records here.
C20_TrackedHaveRecords ==
    /\ pc = "top" => tracked \subseteq DOMAIN Containers
    /\ (pc = "top" /\ policy) => tracked \subseteq DOMAIN NsMap
    /\ pc = "dels" => deletedContainers \subseteq DOMAIN Containers
    /\ pc = "destroy_delete" =>
          /\ cur \in DOMAIN Containers
          /\ policy => cur \in DOMAIN NsMap

\* the loop is evicting a container that has its record and its NsMap entry,
\* and goes on tracking another
C20_Witness ==
    /\ pc = "destroy_delete"
    /\ cur \in DOMAIN Containers
    /\ policy
    /\ cur \in DOMAIN NsMap
    /\ tracked # {}
    /\ ~rpcFailed

====
